---- MODULE Spec2Model ----
(***************************************************************************)
(* Model of the astilectron bundler (bundler.go, astilectron-bundler/      *)
(* main.go): one process run of the command line tool after another, on a  *)
(* disk that outlives the runs.  Every I/O call of the pipeline is one     *)
(* step; the signal watcher's Stop() may fall between any two of them.     *)
(*                                                                         *)
(* Strings the code concatenates or matches are sequences of tokens, so    *)
(* that a derived name is computed, not assumed: "linux-amd64" is          *)
(* <<"linux", "-", "amd64">>.  A path below a directory is a sequence of   *)
(* such names.                                                             *)
(***************************************************************************)
EXTENDS Integers, Sequences, FiniteSets, TLC

\* ------------------------------------------------------------------ bounds
\* longest list of environments of a single process run (Spec)
MaxEnvs == 3
\* process runs on one disk, and their longest list of environments (SpecRuns)
MaxRuns == 2
MaxRunEnvs == 1
\* longest raw path, in segments, handed to absPath (SpecAbs)
MaxSegs == 2
\* longest tags string, in characters, of the environments whose names are compared (SpecNames)
MaxTagLen == 3
\* longest list of environments when some of them differ in their tags only (SpecTags)
MaxTagEnvs == 2

\* ------------------------------------------------------- inputs of the run
ValidOSes == {"darwin", "linux", "windows"}

Env(os, arch, tags) == [OS |-> os, Arch |-> arch, Tags |-> tags]

EnvPool ==
    { Env("linux", "amd64", <<>>), Env("windows", "amd64", <<>>),
      Env("darwin", "amd64", <<>>), Env("plan9", "amd64", <<>>),
      Env("linux", "amd64", <<"a", " ", "b">>) }

\* runtime.GOOS / runtime.GOARCH of the machine the tool runs on
HostEnv == Env("linux", "amd64", <<>>)

AppName == "Demo"

BadPattern == <<"(">>
FilterPool == { <<>>, <<"windows">>, BadPattern }

IconDarwin == <<"icon", ".icns">>
IconWindows == <<"icon", ".ico">>
LocalAstilectron == <<"astilectron-src">>

Subcommands == {"bundle", "bd", "cc"}

EnvLists == UNION { [1..n -> EnvPool] : n \in 0..MaxEnvs }

\* environments of which two differ in their tags only, "a b" and "a-b"
TagPool ==
    { Env("linux", "amd64", <<"a", " ", "b">>), Env("linux", "amd64", <<"a", "-", "b">>),
      Env("windows", "amd64", <<>>), Env("darwin", "amd64", <<>>) }
TagLists == UNION { [1..n -> TagPool] : n \in 0..MaxTagEnvs }

\* ------------------------------------------------------------ pure helpers
\* a replacement that drops the spaces
RECURSIVE ReplaceSpacesDropped(_)
ReplaceSpacesDropped(s) ==
    IF s = <<>> THEN <<>>
    ELSE (IF Head(s) = " " THEN <<>> ELSE <<Head(s)>>) \o ReplaceSpacesDropped(Tail(s))

\* strings.Replace(e.Tags, " ", "-", -1)
RECURSIVE ReplaceSpaces(_)
ReplaceSpaces(s) ==
    IF s = <<>> THEN <<>>
    ELSE <<IF Head(s) = " " THEN "-" ELSE Head(s)>> \o ReplaceSpaces(Tail(s))

EName(e) ==
    <<e.OS, "-">>
      \o (IF e.Tags # <<>> THEN ReplaceSpaces(e.Tags) \o <<"-">> ELSE <<>>)
      \o <<e.Arch>>

EnvironmentPath(e) ==
    <<e.OS>>
      \o (IF Len(e.Tags) > 0 THEN <<"-">> \o ReplaceSpaces(e.Tags) ELSE <<>>)
      \o <<"-", e.Arch>>

\* regexp.MatchString for a literal pattern: the pattern occurs in the subject
MatchString(pattern, s) ==
    \E i \in 0..(Len(s) - Len(pattern)) :
        \A j \in 1..Len(pattern) : s[i + j] = pattern[j]

\* a validation that lets every OS pass
IsValidOSAny(os) == TRUE

\* astilectron.IsValidOS
IsValidOS(os) == os \in ValidOSes

\* the string a sequence of pieces spells: Go's + on strings
RECURSIVE Concat(_)
Concat(s) == IF s = <<>> THEN "" ELSE Head(s) \o Concat(Tail(s))

\* environments whose names are compared: a valid OS, an arch with or without
\* a hyphen in it, tags of single characters with spaces and hyphens among them
NameOSes == {"linux", "windows"}
NameArchs == {"amd64", "b-amd64"}
TagChars == {"b", " ", "-"}
NameTags == UNION { [1..n -> TagChars] : n \in 0..MaxTagLen }
NameEnvs == { Env(os, arch, tags) : os \in NameOSes, arch \in NameArchs, tags \in NameTags }

\* filepath.Ext of a one-name path: its last token when that starts a suffix
Ext(p) == IF Len(p) >= 2 THEN <<p[Len(p)]>> ELSE <<>>

\* ------------------------------------------------- the compiler's environment
\* the variables of the host process, each empty (unset) or set
HostVars == {"GOPATH", "PATH", "HOME", "GOFLAGS"}
HostValues == {"", "u", "v"}
Hosts == [HostVars -> HostValues]

\* os.Getenv
Getenv(host, k) == host[k]

\* a command that gets the variables of the host with GOARCH and GOOS added
CmdEnvInherited(e, host) ==
    << <<"GOARCH", e.Arch>>, <<"GOOS", e.OS>>, <<"GOPATH", Getenv(host, "GOPATH")>>,
       <<"PATH", Getenv(host, "PATH")>>, <<"HOME", Getenv(host, "HOME")>>,
       <<"GOFLAGS", Getenv(host, "GOFLAGS")>> >>

\* bundle 479-484: cmd.Env
CmdEnv(e, host) ==
    << <<"GOARCH", e.Arch>>, <<"GOOS", e.OS>>, <<"GOPATH", Getenv(host, "GOPATH")>>,
       <<"PATH", Getenv(host, "PATH")>> >>

\* ---------------------------------------------------------------- absPath
\* a path is the sequence of its segments; an absolute one starts with "/",
\* the empty sequence is the empty string
PathSegs == {"a", "b", ".", ".."}
RelPaths == UNION { [1..n -> PathSegs] : n \in 0..MaxSegs }
RawPaths == RelPaths \cup { <<"/">> \o p : p \in RelPaths }

IsAbs(p) == p # <<>> /\ p[1] = "/"

\* filepath.Clean below a root: "." is dropped, ".." drops the segment before
\* it, and at the root is dropped itself
RECURSIVE CleanSegs(_, _)
CleanSegs(segs, acc) ==
    IF segs = <<>> THEN acc
    ELSE CASE Head(segs) = "." -> CleanSegs(Tail(segs), acc)
           [] Head(segs) = ".." ->
                CleanSegs(Tail(segs), IF acc = <<>> THEN acc ELSE SubSeq(acc, 1, Len(acc) - 1))
           [] OTHER -> CleanSegs(Tail(segs), Append(acc, Head(segs)))

\* what os.Getwd can answer: a directory, or an error
Getwds == { [o |-> <<"/">>, err |-> "nil"], [o |-> <<"/", "w">>, err |-> "nil"],
            [o |-> <<>>, err |-> "io"] }

\* an Abs that hands the path back as it came
AbsIdentity(path, wd) == [o |-> path, err |-> "nil"]

\* filepath.Abs: an absolute path is cleaned, any other is joined to the
\* working directory, and the error of os.Getwd is the error of Abs
Abs(path, wd) ==
    IF IsAbs(path) THEN [o |-> <<"/">> \o CleanSegs(Tail(path), <<>>), err |-> "nil"]
    ELSE IF wd.err # "nil" THEN [o |-> <<>>, err |-> wd.err]
    ELSE [o |-> <<"/">> \o CleanSegs(Tail(wd.o) \o path, <<>>), err |-> "nil"]

\* the defaultPathFn argument: nil, or a function and what it returns when it
\* is called (os.Getwd, or the closure that joins os.TempDir and "astibundler")
NilFn == [isNil |-> TRUE, o |-> <<>>, err |-> "nil"]
DefaultPathFns ==
    {NilFn} \cup
    { [isNil |-> FALSE, o |-> w.o, err |-> w.err] : w \in Getwds } \cup
    { [isNil |-> FALSE, o |-> t \o <<"astibundler">>, err |-> "nil"] :
        t \in {<<"/", "tmp">>, <<"tmp">>} }

\* absPath 104-117; calls counts the invocations of defaultPathFn
absPath(configPath, defaultPathFn, wd) ==
    IF Len(configPath) > 0
      THEN [o |-> Abs(configPath, wd).o, err |-> Abs(configPath, wd).err, calls |-> 0]
      ELSE IF ~defaultPathFn.isNil
        THEN [o |-> defaultPathFn.o, err |-> defaultPathFn.err, calls |-> 1]
        ELSE [o |-> <<>>, err |-> "nil", calls |-> 0]

\* ------------------------------------------------------------ error values
\* what an os.* call, an external tool, and a call taking the context return
FsOutcomes == {"nil", "io"}
ToolOutcomes == {"nil", "tool"}
CtxOutcomes(isCancelled) == IF isCancelled THEN {"cancelled"} ELSE {"nil", "io"}

NoResult == [kind |-> "none", os |-> "", arch |-> ""]
PlainResult(e) == [kind |-> e, os |-> "", arch |-> ""]
\* errors.Wrapf(err, "bundling for environment %s/%s failed", e.OS, e.Arch)
EnvResult(e, env) == [kind |-> e, os |-> env.OS, arch |-> env.Arch]

\* ------------------------------------------------------------------- disk
AstKey == <<"astilectron", "", "">>
ElectronKey(os, arch) == <<"electron", os, arch>>
CacheKeys == {AstKey} \cup { ElectronKey(e.OS, e.Arch) : e \in EnvPool \cup {HostEnv} }

EnvNames == { EnvironmentPath(e) : e \in EnvPool \cup {HostEnv} }

NoDir == [exists |-> FALSE, items |-> {}]
EmptyDir == [exists |-> TRUE, items |-> {}]
StaleFile == [path |-> <<<<"old">>>>, body |-> [kind |-> "stale"]]
StaleDir == [exists |-> TRUE, items |-> {StaleFile}]

\* a removal that leaves the directory as it was
RemoveAllKeeps(dir) == dir

RemoveAll(dir) == NoDir
\* a creation that creates nothing
MkdirAllSkipped(dir) == dir

MkdirAll(dir) == [dir EXCEPT !.exists = TRUE]
WriteEntry(dir, path, body) ==
    [exists |-> TRUE,
     items |-> { f \in dir.items : f.path # path } \cup {[path |-> path, body |-> body]}]
HasPath(dir, path) == \E f \in dir.items : f.path = path
BodyAt(dir, path) == (CHOOSE f \in dir.items : f.path = path).body
\* a move that leaves the source in place
MoveKeepsSource(dir, src, dst) ==
    [exists |-> TRUE,
     items |-> { f \in dir.items : f.path # dst }
                 \cup { [path |-> dst, body |-> f.body] : f \in { g \in dir.items : g.path = src } }]

\* astios.Move: the file at src is found at dst afterwards, and not at src
MoveEntry(dir, src, dst) ==
    [exists |-> TRUE,
     items |-> { f \in dir.items : f.path # src /\ f.path # dst }
                 \cup { [path |-> dst, body |-> f.body] : f \in { g \in dir.items : g.path = src } }]

\* zipNameAstilectron and zipNameElectron: two package constants, the names of
\* the two archives inside the vendor directory; two distinct one-name paths
ZipNameAstilectron == <<<<"vendor_astilectron", ".zip">>>>
ZipNameElectron == <<<<"vendor_electron", ".zip">>>>

BinaryPath == <<<<"binary">>>>
ContentsPath == << <<AppName, ".app">>, <<"Contents">> >>
MacOSPath == ContentsPath \o <<<<"MacOS">>>>
MacOSBinaryPath == MacOSPath \o <<<<AppName>>>>
ResourcesPath == ContentsPath \o <<<<"Resources">>>>
InfoPlistPath == ContentsPath \o <<<<"Info", ".plist">>>>
LinuxBinaryPath == <<<<AppName>>>>
WindowsBinaryPath == <<<<AppName, ".exe">>>>

DirBody == [kind |-> "dir"]

\* ------------------------------------------------------------------ state
VARIABLES
    environments,       \* b.environments
    environmentFilter,  \* b.environmentFilter
    pathAstilectron,    \* b.pathAstilectron, <<>> when not configured
    pathIconDarwin,     \* b.pathIconDarwin
    pathIconWindows,    \* b.pathIconWindows
    mode,               \* the subcommand of the running process
    pc,                 \* the place the main goroutine is at
    idx,                \* position of Bundle's loop in b.environments
    cur,                \* the environment bundle/BindData is working on
    payload,            \* the archive provisionVendorZip is working on
    err,                \* the error bundle/BindData hands back
    result,             \* what the subcommand returned to main
    cancelled,          \* b.ctx.Err() != nil
    watcher,            \* the goroutine of HandleSignals
    runs,               \* process runs so far on this disk
    cache,              \* files under b.pathCache
    vendor,             \* b.pathVendor
    outDirs,            \* the environment directories under b.pathOutput
    syso,               \* windows.syso exists in b.pathInput
    bind,               \* bind_<os>.go under b.pathBindOutput
    \* what has happened so far, kept for stating the properties
    stopGap,            \* Stop() was called between two checks of b.ctx.Err()
    started,            \* positions of the environments bundle() was called for, in order
    failed,             \* positions of the environments bundle() failed for
    finishedSnap,       \* the directory each finished environment was left with
    absent0,            \* per cache key, no file was cached when the process started
    downloads,          \* per cache key, downloads done by this process
    provisions,         \* per cache key, provisionVendorZip calls of this process that returned nil
    untouched,          \* per cache key, no os.Stat of it since ClearCache returned nil
    lastVendor,         \* per platform, the vendor directory provisionVendor last left
    nameCall,           \* two environments and the names derived for them
    cmdCall,            \* one environment built on two hosts and the cmd.Env of each build
    absCall             \* a call of absPath: its arguments, the working directory, its results

config == <<environments, environmentFilter, pathAstilectron, pathIconDarwin, pathIconWindows,
            nameCall, cmdCall, absCall>>
disk == <<cache, vendor, outDirs, syso, bind>>
proc == <<mode, pc, idx, cur, payload, err, result, cancelled, watcher, runs>>
runHist == <<started, failed, finishedSnap>>
cacheHist == <<absent0, downloads, provisions, untouched, lastVendor>>
hist == <<stopGap, runHist, cacheHist>>
vars == <<config, disk, proc, hist>>

NoBind == [exists |-> FALSE, items |-> {}]

\* no names are being compared
NoNames ==
    [pc |-> "none", a |-> HostEnv, b |-> HostEnv, eNameA |-> "", eNameB |-> "",
     environmentPathA |-> "", environmentPathB |-> ""]

\* no build command is being compared
NoCmd ==
    [pc |-> "none", e |-> HostEnv, hostA |-> [k \in HostVars |-> ""],
     hostB |-> [k \in HostVars |-> ""], envA |-> <<>>, envB |-> <<>>]

\* no call of absPath is being followed
NoCall ==
    [pc |-> "none", configPath |-> <<>>, defaultPathFn |-> NilFn, wd |-> [o |-> <<"/">>, err |-> "nil"],
     o |-> <<>>, err |-> "nil", calls |-> 0]

\* main.go 74-76: an empty list becomes the host's environment
DefaultEnvironments(l) == IF Len(l) = 0 THEN <<HostEnv>> ELSE l

Init ==
    /\ \E l \in EnvLists : environments = DefaultEnvironments(l)
    /\ environmentFilter \in FilterPool
    /\ pathAstilectron \in {<<>>, LocalAstilectron}
    /\ pathIconDarwin \in {<<>>, IconDarwin}
    /\ pathIconWindows \in {<<>>, IconWindows}
    /\ mode \in Subcommands
    /\ pc = "new"
    /\ idx = 1
    /\ cur = HostEnv
    /\ payload = "astilectron"
    /\ err = "nil"
    /\ result = NoResult
    /\ cancelled = FALSE
    /\ watcher = "idle"
    /\ runs = 1
    /\ \E used \in BOOLEAN :
         /\ cache = [k \in CacheKeys |-> IF used THEN "canonical" ELSE "none"]
         /\ vendor = IF used THEN StaleDir ELSE NoDir
         /\ outDirs = [n \in EnvNames |-> IF used THEN StaleDir ELSE NoDir]
         /\ absent0 = [k \in CacheKeys |-> ~used]
    /\ syso = FALSE
    /\ bind = [os \in ValidOSes |-> NoBind]
    /\ stopGap = FALSE
    /\ started = <<>>
    /\ failed = {}
    /\ finishedSnap = <<>>
    /\ downloads = [k \in CacheKeys |-> 0]
    /\ provisions = [k \in CacheKeys |-> 0]
    /\ untouched = [k \in CacheKeys |-> FALSE]
    /\ lastVendor = [k \in CacheKeys |-> NoDir]
    /\ absCall = NoCall
    /\ nameCall = NoNames
    /\ cmdCall = NoCmd

\* ---------------------------------------------------- returning from calls
\* bundle() hands its error to Bundle's loop, BindData called by main to main
ReturnPoint == IF mode = "bd" THEN "bindRet" ELSE "bundleRet"

Return(e) ==
    /\ pc' = ReturnPoint
    /\ err' = e

Finish(r) ==
    /\ pc' = "done"
    /\ result' = r

\* ----------------------------------------------------- main, New, signals
New ==
    /\ pc = "new"
    /\ IF \E i \in 1..Len(environments) : ~IsValidOS(environments[i].OS)
         THEN Finish(PlainResult("config"))
         ELSE pc' = "signals" /\ UNCHANGED result
    /\ UNCHANGED <<config, disk, mode, idx, cur, payload, err, cancelled, watcher, runs>>
    /\ UNCHANGED hist

HandleSignals ==
    /\ pc = "signals"
    /\ pc' = "switch"
    /\ watcher' = "watching"
    /\ UNCHANGED <<config, disk, mode, idx, cur, payload, err, result, cancelled, runs>>
    /\ UNCHANGED hist

\* places of bundle() that lie after one check of b.ctx.Err() and before the
\* next one of the same environment (lines 300, 312 and the finishers' checks)
CheckpointGaps ==
    {"copy", "chkCopy", "translate", "syso", "build", "dMkdir", "dMove", "dChkMove",
     "lMove", "lChk", "wMove", "wChk"}

\* a watcher that goes on listening after a signal
WatcherKeepsWatching == "watching"

\* HandleSignals 215: the goroutine returns after its first signal
WatcherAfterSignal == "exited"

\* a monitored signal arrives: the watcher calls Stop() and returns
Stop ==
    /\ watcher = "watching"
    /\ pc # "done"
    /\ cancelled' = TRUE
    /\ watcher' = WatcherAfterSignal
    /\ stopGap' = (pc \in CheckpointGaps)
    /\ UNCHANGED <<config, disk, mode, pc, idx, cur, payload, err, result, runs>>
    /\ UNCHANGED <<runHist, cacheHist>>

MainSwitch ==
    /\ pc = "switch"
    /\ pc' = CASE mode = "bd" -> "rmVendor"
               [] mode = "cc" -> "clearCache"
               [] OTHER -> "reset"
    /\ cur' = IF mode = "bd" THEN HostEnv ELSE cur
    /\ UNCHANGED <<config, disk, mode, idx, payload, err, result, cancelled, watcher, runs>>
    /\ UNCHANGED hist

\* a stat that never finds the cached file
IsNotExistAlways(c, k) == TRUE

\* os.IsNotExist(errStat) of os.Stat(pathCache)
IsNotExist(c, k) == c[k] = "none"

\* a removal that leaves the cached files in place
ClearedCacheKeeps(c) == c

\* os.RemoveAll(b.pathCache)
ClearedCache(c) == [k \in CacheKeys |-> "none"]

ClearCache ==
    /\ pc = "clearCache"
    /\ \E o \in FsOutcomes :
         /\ cache' = IF o = "nil" THEN ClearedCache(cache) ELSE cache
         /\ Finish(PlainResult(IF o = "nil" THEN "ok" ELSE o))
         /\ IF o = "nil"
              THEN /\ untouched' = [k \in CacheKeys |-> TRUE]
                   /\ lastVendor' = [k \in CacheKeys |-> NoDir]
              ELSE UNCHANGED <<untouched, lastVendor>>
         /\ UNCHANGED <<absent0, downloads, provisions>>
    /\ UNCHANGED <<config, vendor, outDirs, syso, bind, mode, idx, cur, payload, err,
                   cancelled, watcher, runs, stopGap, runHist>>

\* a new process on the same disk, with the same configuration file
Restart ==
    /\ pc = "done"
    /\ runs < MaxRuns
    /\ runs' = runs + 1
    /\ mode' \in Subcommands
    /\ pc' = "new"
    /\ idx' = 1
    /\ cur' = HostEnv
    /\ payload' = "astilectron"
    /\ err' = "nil"
    /\ result' = NoResult
    /\ cancelled' = FALSE
    /\ watcher' = "idle"
    /\ stopGap' = FALSE
    /\ started' = <<>>
    /\ failed' = {}
    /\ finishedSnap' = <<>>
    /\ absent0' = [k \in CacheKeys |-> IsNotExist(cache, k)]
    /\ downloads' = [k \in CacheKeys |-> 0]
    /\ provisions' = [k \in CacheKeys |-> 0]
    /\ UNCHANGED <<config, disk, untouched, lastVendor>>

\* ------------------------------------------------------- Bundle and bundle
Reset ==
    /\ pc = "reset"
    /\ \E o \in FsOutcomes :
         IF o = "nil" THEN pc' = "loop" /\ idx' = 1 /\ UNCHANGED result
         ELSE Finish(PlainResult(o)) /\ UNCHANGED idx
    /\ UNCHANGED <<config, disk, mode, cur, payload, err, cancelled, watcher, runs>>
    /\ UNCHANGED hist

\* a loop that ignores the filter
SelectedAll(e) == TRUE

Selected(e) ==
    environmentFilter = <<>> \/ MatchString(environmentFilter, EName(e))

BundleLoop ==
    /\ pc = "loop"
    /\ IF idx > Len(environments)
         THEN Finish(PlainResult("ok")) /\ UNCHANGED <<idx, cur>>
         ELSE IF environmentFilter = BadPattern
           THEN Finish(PlainResult("regex")) /\ UNCHANGED <<idx, cur>>
           ELSE IF ~Selected(environments[idx])
             THEN idx' = idx + 1 /\ UNCHANGED <<pc, result, cur>>
             ELSE pc' = "rmEnv" /\ cur' = environments[idx] /\ UNCHANGED <<idx, result>>
    /\ started' = IF pc' = "rmEnv" THEN Append(started, idx) ELSE started
    /\ UNCHANGED <<config, disk, mode, payload, err, cancelled, watcher, runs>>
    /\ UNCHANGED <<stopGap, failed, finishedSnap, cacheHist>>

\* a loop that goes on to the next environment whatever bundle returned
FailFastNever(e) == FALSE

\* Bundle 266: if err = b.bundle(e); err != nil { ...; return }
FailFast(e) == e # "nil"

BundleRet ==
    /\ pc = "bundleRet"
    /\ IF FailFast(err)
         THEN Finish(EnvResult(err, cur)) /\ UNCHANGED idx
         ELSE pc' = "loop" /\ idx' = idx + 1 /\ UNCHANGED result
    /\ failed' = IF err # "nil" THEN failed \cup {idx} ELSE failed
    /\ finishedSnap' = IF err = "nil"
                         THEN Append(finishedSnap, [pos |-> idx, dir |-> outDirs[EnvironmentPath(cur)]])
                         ELSE finishedSnap
    /\ UNCHANGED <<config, disk, mode, cur, payload, err, cancelled, watcher, runs>>
    /\ UNCHANGED <<stopGap, started, cacheHist>>

\* main.go 96-98
BindRet ==
    /\ pc = "bindRet"
    /\ Finish(PlainResult(IF err = "nil" THEN "ok" ELSE err))
    /\ UNCHANGED <<config, disk, mode, idx, cur, payload, err, cancelled, watcher, runs>>
    /\ UNCHANGED hist

\* a removal of the whole output root instead of the environment's directory
RemoveOutputPath(dirs, e) == [n \in DOMAIN dirs |-> NoDir]

\* bundle 437: os.RemoveAll(environmentPath)
RemoveEnvironmentPath(dirs, e) ==
    [dirs EXCEPT ![EnvironmentPath(e)] = RemoveAll(dirs[EnvironmentPath(e)])]

RemoveEnv ==
    /\ pc = "rmEnv"
    /\ \E o \in FsOutcomes :
         IF o = "nil"
           THEN /\ outDirs' = RemoveEnvironmentPath(outDirs, cur)
                /\ pc' = "mkEnv"
                /\ UNCHANGED err
           ELSE Return(o) /\ UNCHANGED outDirs
    /\ UNCHANGED <<config, cache, vendor, syso, bind, mode, idx, cur, payload, result,
                   cancelled, watcher, runs>>
    /\ UNCHANGED hist

MkdirEnv ==
    /\ pc = "mkEnv"
    /\ \E o \in FsOutcomes :
         IF o = "nil"
           THEN /\ outDirs' = [outDirs EXCEPT
                                 ![EnvironmentPath(cur)] = MkdirAll(outDirs[EnvironmentPath(cur)])]
                /\ pc' = "rmVendor"
                /\ UNCHANGED err
           ELSE Return(o) /\ UNCHANGED outDirs
    /\ UNCHANGED <<config, cache, vendor, syso, bind, mode, idx, cur, payload, result,
                   cancelled, watcher, runs>>
    /\ UNCHANGED hist

\* ------------------------------------------------------ vendor provisioning
RemoveVendor ==
    /\ pc = "rmVendor"
    /\ \E o \in FsOutcomes :
         IF o = "nil"
           THEN vendor' = RemoveAll(vendor) /\ pc' = "mkVendor" /\ UNCHANGED err
           ELSE Return(o) /\ UNCHANGED vendor
    /\ UNCHANGED <<config, cache, outDirs, syso, bind, mode, idx, cur, payload, result,
                   cancelled, watcher, runs>>
    /\ UNCHANGED hist

MkdirVendor ==
    /\ pc = "mkVendor"
    /\ \E o \in FsOutcomes :
         IF o = "nil"
           THEN /\ vendor' = MkdirAll(vendor)
                /\ pc' = IF Len(pathAstilectron) > 0 THEN "zip" ELSE "download"
                /\ payload' = "astilectron"
                /\ UNCHANGED err
           ELSE Return(o) /\ UNCHANGED <<vendor, payload>>
    /\ UNCHANGED <<config, cache, outDirs, syso, bind, mode, idx, cur, result,
                   cancelled, watcher, runs>>
    /\ UNCHANGED hist

\* provisionVendorAstilectron 321-327: the local framework is zipped over the
\* cache path of the framework
ZipAstilectron ==
    /\ pc = "zip"
    /\ \E o \in CtxOutcomes(cancelled) :
         IF o = "nil"
           THEN cache' = [cache EXCEPT ![AstKey] = "local"] /\ pc' = "chkZip" /\ UNCHANGED err
           ELSE Return(o) /\ UNCHANGED cache
    /\ UNCHANGED <<config, vendor, outDirs, syso, bind, mode, idx, cur, payload, result,
                   cancelled, watcher, runs>>
    /\ UNCHANGED hist

CheckZip ==
    /\ pc = "chkZip"
    /\ IF cancelled THEN Return("cancelled") ELSE pc' = "download" /\ UNCHANGED err
    /\ UNCHANGED <<config, disk, mode, idx, cur, payload, result, cancelled, watcher, runs>>
    /\ UNCHANGED hist

\* the pathCache and pathVendor arguments of provisionVendorZip
PayloadKey(p, e) == IF p = "astilectron" THEN AstKey ELSE ElectronKey(e.OS, e.Arch)
PayloadVendorPath(p) == IF p = "astilectron" THEN ZipNameAstilectron ELSE ZipNameElectron

Min2(n) == IF n > 2 THEN 2 ELSE n

Download ==
    /\ pc = "download"
    /\ IF IsNotExist(cache, PayloadKey(payload, cur))
         THEN \E o \in CtxOutcomes(cancelled) :
                IF o = "nil"
                  THEN /\ cache' = [cache EXCEPT ![PayloadKey(payload, cur)] = "canonical"]
                       /\ downloads' = [downloads EXCEPT ![PayloadKey(payload, cur)] = Min2(@ + 1)]
                       /\ pc' = "chkDownload"
                       /\ UNCHANGED err
                  ELSE Return(o) /\ UNCHANGED <<cache, downloads>>
         ELSE pc' = "chkDownload" /\ UNCHANGED <<cache, downloads, err>>
    /\ untouched' = [untouched EXCEPT ![PayloadKey(payload, cur)] = FALSE]
    /\ UNCHANGED <<config, vendor, outDirs, syso, bind, mode, idx, cur, payload, result,
                   cancelled, watcher, runs>>
    /\ UNCHANGED <<stopGap, runHist, absent0, provisions, lastVendor>>

CheckDownload ==
    /\ pc = "chkDownload"
    /\ IF cancelled THEN Return("cancelled") ELSE pc' = "copy" /\ UNCHANGED err
    /\ UNCHANGED <<config, disk, mode, idx, cur, payload, result, cancelled, watcher, runs>>
    /\ UNCHANGED hist

\* what astios.Copy leaves at pathVendor: the bytes of the cache file
CopiedBody(c, k) == [kind |-> "zip", key |-> k, data |-> c[k]]

\* a copy that takes the source away, as a move does
CopySourceMoved(c, k) == [c EXCEPT ![k] = "none"]

\* the cache after astios.Copy read the file of key k: as it was
CopySource(c, k) == c

CopyZip ==
    /\ pc = "copy"
    /\ \E o \in CtxOutcomes(cancelled) :
         IF o = "nil"
           THEN /\ vendor' = WriteEntry(vendor, PayloadVendorPath(payload),
                                        CopiedBody(cache, PayloadKey(payload, cur)))
                /\ cache' = CopySource(cache, PayloadKey(payload, cur))
                /\ pc' = "chkCopy"
                /\ UNCHANGED err
           ELSE Return(o) /\ UNCHANGED <<vendor, cache>>
    /\ UNCHANGED <<config, outDirs, syso, bind, mode, idx, cur, payload, result,
                   cancelled, watcher, runs>>
    /\ UNCHANGED hist

CheckCopy ==
    /\ pc = "chkCopy"
    /\ IF cancelled
         THEN Return("cancelled") /\ UNCHANGED payload
         ELSE IF payload = "astilectron"
           THEN pc' = "download" /\ payload' = "electron" /\ UNCHANGED err
           ELSE pc' = "translate" /\ UNCHANGED <<payload, err>>
    /\ provisions' = IF cancelled THEN provisions
                       ELSE [provisions EXCEPT ![PayloadKey(payload, cur)] = Min2(@ + 1)]
    /\ UNCHANGED <<config, disk, mode, idx, cur, result, cancelled, watcher, runs>>
    /\ UNCHANGED <<stopGap, runHist, absent0, downloads, untouched, lastVendor>>

\* ------------------------------------------------ embedding and compiling
\* an icon resource step taken for every OS
SysoWantedAlways(e) == TRUE

\* bundle 457: if e.OS == "windows", addWindowsSyso is called
SysoWanted(e) == e.OS = "windows"

\* BindData 380-397: bindata.Translate embeds what is in resources and vendor
Translate ==
    /\ pc = "translate"
    /\ \E o \in ToolOutcomes :
         IF o = "nil"
           THEN /\ bind' = [bind EXCEPT ![cur.OS] = [exists |-> TRUE, items |-> vendor.items]]
                /\ IF mode = "bd"
                     THEN Return("nil")
                     ELSE /\ pc' = IF SysoWanted(cur) THEN "syso" ELSE "build"
                          /\ UNCHANGED err
           ELSE Return(o) /\ UNCHANGED bind
    /\ lastVendor' = [lastVendor EXCEPT ![ElectronKey(cur.OS, cur.Arch)] = vendor]
    /\ UNCHANGED <<config, cache, vendor, outDirs, syso, mode, idx, cur, payload, result,
                   cancelled, watcher, runs>>
    /\ UNCHANGED <<stopGap, runHist, absent0, downloads, provisions, untouched>>

AddWindowsSyso ==
    /\ pc = "syso"
    /\ IF Len(pathIconWindows) > 0
         THEN \E o \in ToolOutcomes :
                IF o = "nil"
                  THEN syso' = TRUE /\ pc' = "build" /\ UNCHANGED err
                  ELSE Return(o) /\ UNCHANGED syso
         ELSE pc' = "build" /\ UNCHANGED <<syso, err>>
    /\ UNCHANGED <<config, cache, vendor, outDirs, bind, mode, idx, cur, payload, result,
                   cancelled, watcher, runs>>
    /\ UNCHANGED hist

\* the file "go build -o <env>/binary" writes, from what is in b.pathInput
BinaryBody(e, hasSyso) ==
    [kind |-> "binary", os |-> e.OS, arch |-> e.Arch, tags |-> e.Tags, syso |-> hasSyso,
     mode |-> "built"]

\* a switch that finishes every OS but windows the way linux is finished
FinisherFlat(os) == IF os = "windows" THEN "wMove" ELSE "lMove"

\* the switch on e.OS that closes bundle(); "" is its default branch
Finisher(os) ==
    CASE os = "darwin" -> "dMkdir"
      [] os = "linux" -> "lMove"
      [] os = "windows" -> "wMove"
      [] OTHER -> ""

Build ==
    /\ pc = "build"
    /\ \E o \in ToolOutcomes :
         IF o = "nil"
           THEN /\ outDirs' = [outDirs EXCEPT ![EnvironmentPath(cur)] =
                                  WriteEntry(@, BinaryPath, BinaryBody(cur, syso))]
                /\ IF Finisher(cur.OS) = ""
                     THEN Return("tool")
                     ELSE pc' = Finisher(cur.OS) /\ UNCHANGED err
           ELSE Return(o) /\ UNCHANGED outDirs
    /\ UNCHANGED <<config, cache, vendor, syso, bind, mode, idx, cur, payload, result,
                   cancelled, watcher, runs>>
    /\ UNCHANGED hist

\* ------------------------------------------------------------- finishers
EnvDirStep(next, dir) ==
    /\ outDirs' = [outDirs EXCEPT ![EnvironmentPath(cur)] = dir]
    /\ pc' = next
    /\ UNCHANGED err

\* os.MkdirAll of a nested path: every prefix becomes a directory
MkdirAllPath(dir, path) ==
    [exists |-> TRUE,
     items |-> dir.items \cup
               { [path |-> SubSeq(path, 1, n), body |-> DirBody] :
                   n \in { m \in 1..Len(path) : ~HasPath(dir, SubSeq(path, 1, m)) } }]

Chmod(dir, path, m) ==
    [dir EXCEPT !.items =
        { IF f.path = path THEN [f EXCEPT !.body.mode = m] ELSE f : f \in dir.items }]

\* a plist whose identifier is the bare application name
InfoPlistBareIdentifier ==
    [kind |-> "plist",
     iconFile |-> <<AppName>> \o Ext(pathIconDarwin),
     displayName |-> <<AppName>>,
     executable |-> <<AppName>>,
     name |-> <<AppName>>,
     identifier |-> <<AppName>>]

InfoPlist ==
    [kind |-> "plist",
     iconFile |-> <<AppName>> \o Ext(pathIconDarwin),
     displayName |-> <<AppName>>,
     executable |-> <<AppName>>,
     name |-> <<AppName>>,
     identifier |-> <<"com.", AppName>>]

IconPath == ResourcesPath \o << <<AppName>> \o Ext(pathIconDarwin) >>
IconBody == [kind |-> "icon", from |-> pathIconDarwin]

FinisherFrame ==
    UNCHANGED <<config, cache, vendor, syso, bind, mode, idx, cur, payload, result,
                cancelled, watcher, runs, hist>>

CheckFrame ==
    UNCHANGED <<config, disk, mode, idx, cur, payload, result, cancelled, watcher, runs, hist>>

DarwinMkdir ==
    /\ pc = "dMkdir"
    /\ \E o \in FsOutcomes :
         IF o = "nil"
           THEN EnvDirStep("dMove", MkdirAllPath(outDirs[EnvironmentPath(cur)], MacOSPath))
           ELSE Return(o) /\ UNCHANGED outDirs
    /\ FinisherFrame

DarwinMove ==
    /\ pc = "dMove"
    /\ \E o \in CtxOutcomes(cancelled) :
         IF o = "nil"
           THEN EnvDirStep("dChkMove",
                           MoveEntry(outDirs[EnvironmentPath(cur)], BinaryPath, MacOSBinaryPath))
           ELSE Return(o) /\ UNCHANGED outDirs
    /\ FinisherFrame

DarwinCheckMove ==
    /\ pc = "dChkMove"
    /\ IF cancelled THEN Return("cancelled") ELSE pc' = "dChmod" /\ UNCHANGED err
    /\ CheckFrame

DarwinChmod ==
    /\ pc = "dChmod"
    /\ \E o \in FsOutcomes :
         IF o = "nil"
           THEN EnvDirStep(IF Len(pathIconDarwin) > 0 THEN "dMkRes" ELSE "dPlist",
                           Chmod(outDirs[EnvironmentPath(cur)], MacOSBinaryPath, "0777"))
           ELSE Return(o) /\ UNCHANGED outDirs
    /\ FinisherFrame

DarwinMkdirResources ==
    /\ pc = "dMkRes"
    /\ \E o \in FsOutcomes :
         IF o = "nil"
           THEN EnvDirStep("dCopyIcon",
                           MkdirAllPath(outDirs[EnvironmentPath(cur)], ResourcesPath))
           ELSE Return(o) /\ UNCHANGED outDirs
    /\ FinisherFrame

DarwinCopyIcon ==
    /\ pc = "dCopyIcon"
    /\ \E o \in CtxOutcomes(cancelled) :
         IF o = "nil"
           THEN EnvDirStep("dChkIcon",
                           WriteEntry(outDirs[EnvironmentPath(cur)], IconPath, IconBody))
           ELSE Return(o) /\ UNCHANGED outDirs
    /\ FinisherFrame

DarwinCheckIcon ==
    /\ pc = "dChkIcon"
    /\ IF cancelled THEN Return("cancelled") ELSE pc' = "dPlist" /\ UNCHANGED err
    /\ CheckFrame

DarwinPlist ==
    /\ pc = "dPlist"
    /\ \E o \in FsOutcomes :
         /\ outDirs' = IF o = "nil"
                         THEN [outDirs EXCEPT ![EnvironmentPath(cur)] =
                                 WriteEntry(@, InfoPlistPath, InfoPlist)]
                         ELSE outDirs
         /\ Return(o)
    /\ FinisherFrame

LinuxMove ==
    /\ pc = "lMove"
    /\ \E o \in CtxOutcomes(cancelled) :
         IF o = "nil"
           THEN EnvDirStep("lChk",
                           MoveEntry(outDirs[EnvironmentPath(cur)], BinaryPath, LinuxBinaryPath))
           ELSE Return(o) /\ UNCHANGED outDirs
    /\ FinisherFrame

LinuxCheck ==
    /\ pc = "lChk"
    /\ Return(IF cancelled THEN "cancelled" ELSE "nil")
    /\ CheckFrame

WindowsMove ==
    /\ pc = "wMove"
    /\ \E o \in CtxOutcomes(cancelled) :
         IF o = "nil"
           THEN EnvDirStep("wChk",
                           MoveEntry(outDirs[EnvironmentPath(cur)], BinaryPath, WindowsBinaryPath))
           ELSE Return(o) /\ UNCHANGED outDirs
    /\ FinisherFrame

WindowsCheck ==
    /\ pc = "wChk"
    /\ Return(IF cancelled THEN "cancelled" ELSE "nil")
    /\ CheckFrame

\* ------------------------------------------------------------ specification
Next ==
    \/ New \/ HandleSignals \/ Stop \/ MainSwitch \/ ClearCache
    \/ Reset \/ BundleLoop \/ BundleRet \/ BindRet \/ RemoveEnv \/ MkdirEnv
    \/ RemoveVendor \/ MkdirVendor \/ ZipAstilectron \/ CheckZip
    \/ Download \/ CheckDownload \/ CopyZip \/ CheckCopy
    \/ Translate \/ AddWindowsSyso \/ Build
    \/ DarwinMkdir \/ DarwinMove \/ DarwinCheckMove \/ DarwinChmod
    \/ DarwinMkdirResources \/ DarwinCopyIcon \/ DarwinCheckIcon \/ DarwinPlist
    \/ LinuxMove \/ LinuxCheck \/ WindowsMove \/ WindowsCheck

\* one run of the command
Spec == Init /\ [][Next]_vars

\* one run after the other on the same disk; the icons, which no run reads
\* back, are configured together
InitRuns ==
    /\ Init
    /\ Len(environments) <= MaxRunEnvs
    /\ (pathIconDarwin = <<>>) <=> (pathIconWindows = <<>>)
NextRuns == Next \/ Restart
SpecRuns == InitRuns /\ [][NextRuns]_vars

\* one run of the command over environments that may differ in their tags only
InitTags ==
    /\ \E l \in TagLists : environments = DefaultEnvironments(l)
    /\ environmentFilter \in FilterPool
    /\ pathAstilectron \in {<<>>, LocalAstilectron}
    /\ pathIconDarwin \in {<<>>, IconDarwin}
    /\ pathIconWindows \in {<<>>, IconWindows}
    /\ mode \in Subcommands
    /\ pc = "new"
    /\ idx = 1
    /\ cur = HostEnv
    /\ payload = "astilectron"
    /\ err = "nil"
    /\ result = NoResult
    /\ cancelled = FALSE
    /\ watcher = "idle"
    /\ runs = 1
    /\ \E used \in BOOLEAN :
         /\ cache = [k \in CacheKeys |-> IF used THEN "canonical" ELSE "none"]
         /\ vendor = IF used THEN StaleDir ELSE NoDir
         /\ outDirs = [n \in EnvNames |-> IF used THEN StaleDir ELSE NoDir]
         /\ absent0 = [k \in CacheKeys |-> ~used]
    /\ syso = FALSE
    /\ bind = [os \in ValidOSes |-> NoBind]
    /\ stopGap = FALSE
    /\ started = <<>>
    /\ failed = {}
    /\ finishedSnap = <<>>
    /\ downloads = [k \in CacheKeys |-> 0]
    /\ provisions = [k \in CacheKeys |-> 0]
    /\ untouched = [k \in CacheKeys |-> FALSE]
    /\ lastVendor = [k \in CacheKeys |-> NoDir]
    /\ absCall = NoCall
    /\ nameCall = NoNames
    /\ cmdCall = NoCmd

SpecTags == InitTags /\ [][Next]_vars

\* ---------------------------------------------------- absPath on its own
\* New 140-184 calls absPath with each configured path and nil, os.Getwd or
\* the cache closure; here one call, with any path and any default function
BundlerIdle ==
    /\ environments = <<HostEnv>>
    /\ environmentFilter = <<>>
    /\ pathAstilectron = <<>>
    /\ pathIconDarwin = <<>>
    /\ pathIconWindows = <<>>
    /\ mode = "bundle"
    /\ pc = "new"
    /\ idx = 1
    /\ cur = HostEnv
    /\ payload = "astilectron"
    /\ err = "nil"
    /\ result = NoResult
    /\ cancelled = FALSE
    /\ watcher = "idle"
    /\ runs = 1
    /\ cache = [k \in CacheKeys |-> "none"]
    /\ vendor = NoDir
    /\ outDirs = [n \in EnvNames |-> NoDir]
    /\ absent0 = [k \in CacheKeys |-> TRUE]
    /\ syso = FALSE
    /\ bind = [os \in ValidOSes |-> NoBind]
    /\ stopGap = FALSE
    /\ started = <<>>
    /\ failed = {}
    /\ finishedSnap = <<>>
    /\ downloads = [k \in CacheKeys |-> 0]
    /\ provisions = [k \in CacheKeys |-> 0]
    /\ untouched = [k \in CacheKeys |-> FALSE]
    /\ lastVendor = [k \in CacheKeys |-> NoDir]

InitAbs ==
    /\ BundlerIdle
    /\ nameCall = NoNames
    /\ cmdCall = NoCmd
    /\ \E p \in RawPaths, f \in DefaultPathFns, w \in Getwds :
         absCall = [pc |-> "call", configPath |-> p, defaultPathFn |-> f, wd |-> w,
                    o |-> <<>>, err |-> "nil", calls |-> 0]

AbsPathCall ==
    /\ absCall.pc = "call"
    /\ absCall' = [absCall EXCEPT
                     !.pc = "ret",
                     !.o = absPath(absCall.configPath, absCall.defaultPathFn, absCall.wd).o,
                     !.err = absPath(absCall.configPath, absCall.defaultPathFn, absCall.wd).err,
                     !.calls = absPath(absCall.configPath, absCall.defaultPathFn, absCall.wd).calls]
    /\ UNCHANGED <<environments, environmentFilter, pathAstilectron, pathIconDarwin,
                   pathIconWindows, nameCall, cmdCall, disk, proc, hist>>

SpecAbs == InitAbs /\ [][AbsPathCall]_vars

\* ------------------------------------------------ derived names on their own
\* Bundle 248-252 and bundle 430-435 derive, for each environment of the
\* list, the subject of the filter and the name of its directory; here for two
\* environments of any OS, arch and tags
InitNames ==
    /\ BundlerIdle
    /\ absCall = NoCall
    /\ cmdCall = NoCmd
    /\ \E a, b \in NameEnvs :
         nameCall = [NoNames EXCEPT !.pc = "call", !.a = a, !.b = b]

DeriveNames ==
    /\ nameCall.pc = "call"
    /\ nameCall' = [nameCall EXCEPT
                      !.pc = "ret",
                      !.eNameA = Concat(EName(nameCall.a)),
                      !.eNameB = Concat(EName(nameCall.b)),
                      !.environmentPathA = Concat(EnvironmentPath(nameCall.a)),
                      !.environmentPathB = Concat(EnvironmentPath(nameCall.b))]
    /\ UNCHANGED <<environments, environmentFilter, pathAstilectron, pathIconDarwin,
                   pathIconWindows, absCall, cmdCall, disk, proc, hist>>

SpecNames == InitNames /\ [][DeriveNames]_vars

\* ------------------------------------------- the build command on its own
\* bundle 478-484 builds the command for the environment from the variables
\* of the host; here for one environment on two hosts
InitCmd ==
    /\ BundlerIdle
    /\ absCall = NoCall
    /\ nameCall = NoNames
    /\ \E e \in { x \in EnvPool : IsValidOS(x.OS) }, hA, hB \in Hosts :
         cmdCall = [NoCmd EXCEPT !.pc = "call", !.e = e, !.hostA = hA, !.hostB = hB]

BuildCmd ==
    /\ cmdCall.pc = "call"
    /\ cmdCall' = [cmdCall EXCEPT
                     !.pc = "ret",
                     !.envA = CmdEnv(cmdCall.e, cmdCall.hostA),
                     !.envB = CmdEnv(cmdCall.e, cmdCall.hostB)]
    /\ UNCHANGED <<environments, environmentFilter, pathAstilectron, pathIconDarwin,
                   pathIconWindows, absCall, nameCall, disk, proc, hist>>

SpecCmd == InitCmd /\ [][BuildCmd]_vars

\* =================================================================== claims

\* C1: provisioning is idempotent with respect to the cache.  With no local
\* framework override, once provisionVendorZip has returned nil for a key in
\* this run, the downloads of that key number exactly one when no file was
\* cached for it at the start and zero when one was, however often the key
\* is provisioned; and a provisionVendor that returns nil leaves the vendor
\* directory exactly as the previous one for the same OS and arch left it.
C1_ProvisionIdempotent ==
    pathAstilectron = <<>> =>
      /\ \A k \in CacheKeys :
           provisions[k] >= 1 => downloads[k] = (IF absent0[k] THEN 1 ELSE 0)
      /\ (pc = "translate" /\ lastVendor[ElectronKey(cur.OS, cur.Arch)] # NoDir)
           => vendor = lastVendor[ElectronKey(cur.OS, cur.Arch)]

\* the same platform has been provisioned a second time, after a first time
\* that had to download both archives
C1_Witness ==
    /\ pathAstilectron = <<>>
    /\ pc = "translate"
    /\ lastVendor[ElectronKey(cur.OS, cur.Arch)] # NoDir
    /\ \A k \in {AstKey, ElectronKey(cur.OS, cur.Arch)} :
         absent0[k] /\ provisions[k] = 2 /\ downloads[k] = 1

\* C2: whenever provisionVendor(os, arch) has returned nil, the vendor
\* directory holds exactly two items, the framework archive and the webview
\* runtime archive of (os, arch), and nothing of an earlier environment.
C2_VendorExactlyTwo ==
    pc = "translate" =>
      /\ vendor.exists
      /\ Cardinality(vendor.items) = 2
      /\ \E a, e \in vendor.items :
           /\ a.path = <<<<"vendor_astilectron", ".zip">>>>
           /\ a.body.kind = "zip" /\ a.body.key = <<"astilectron", "", "">>
           /\ a.body.data \in {"canonical", "local"}
           /\ e.path = <<<<"vendor_electron", ".zip">>>>
           /\ e.body.kind = "zip" /\ e.body.key = <<"electron", cur.OS, cur.Arch>>
           /\ e.body.data \in {"canonical", "local"}

\* provisioning for a second environment of another OS has returned nil, on
\* a disk whose vendor directory held a foreign file to begin with
C2_Witness ==
    /\ pc = "translate"
    /\ mode = "bundle"
    /\ Len(started) = 2
    /\ environments[started[1]].OS # cur.OS
    /\ outDirs[<<"plan9", "-", "amd64">>] = StaleDir

\* C3: a Stop() that falls between two consecutive checks of the context
\* makes Bundle return the context's cancellation error, never nil and never
\* an error of a file system call or of a tool.
C3_CancelReported ==
    (pc = "done" /\ mode = "bundle" /\ stopGap) => result.kind = "cancelled"

\* C4: once Stop() has been called, no step of the run changes anything on
\* disk: no directory is removed or created, nothing is downloaded, copied,
\* embedded, compiled, moved or written.
C4_NoWorkAfterStop == [][(cancelled /\ mode = "bundle") => disk' = disk]_vars

\* C5: with a filter configured, bundle() runs for exactly the environments
\* whose derived name OS[-tags]-arch matches it, in list order; every step of
\* the pipeline works on a matching environment, and no step changes the
\* output directory of an environment that does not match.
C5_Matching(i) == MatchString(environmentFilter, EName(environments[i]))

C5_Positions == [i \in 1..Len(environments) |-> i]

C5_FilterExact ==
    /\ [](environmentFilter # <<>> =>
            /\ \A n \in 1..Len(started) : C5_Matching(started[n])
            /\ (mode = "bundle" /\ pc \notin {"new", "signals", "switch", "reset", "loop", "done"})
                 => MatchString(environmentFilter, EName(cur))
            /\ (pc = "done" /\ mode = "bundle" /\ result.kind = "ok")
                 => started = SelectSeq(C5_Positions, C5_Matching))
    /\ [][environmentFilter # <<>> =>
            \A i \in 1..Len(environments) :
               ~C5_Matching(i) =>
                  outDirs'[EnvironmentPath(environments[i])]
                    = outDirs[EnvironmentPath(environments[i])]]_vars

\* the example of the specification: linux, windows, darwin with the filter
\* "windows"; Bundle has returned nil, only the windows bundle was produced
\* and the two other directories are as they were found
C5_Witness ==
    /\ environmentFilter = <<"windows">>
    /\ environments = <<Env("linux", "amd64", <<>>), Env("windows", "amd64", <<>>),
                        Env("darwin", "amd64", <<>>)>>
    /\ pc = "done" /\ mode = "bundle" /\ result.kind = "ok"
    /\ started = <<2>>
    /\ outDirs[<<"linux", "-", "amd64">>] = StaleDir
    /\ outDirs[<<"darwin", "-", "amd64">>] = StaleDir
    /\ \E f \in outDirs[<<"windows", "-", "amd64">>].items : f.path = <<<<AppName, ".exe">>>>

\* C6: Bundle takes the selected environments one at a time in list order and
\* stops at the first one that fails: the failed environment is the last one
\* bundle() was called for, and the error Bundle returns names its OS and arch.
C6_FailFast ==
    /\ \A n \in 1..Len(started) :
         /\ started[n] \in 1..Len(environments)
         /\ n > 1 => started[n - 1] < started[n]
    /\ pc \notin {"new", "signals", "switch", "reset", "loop", "done"} /\ mode = "bundle"
         => started # <<>> /\ cur = environments[started[Len(started)]]
    /\ \A j \in failed :
         /\ started # <<>> /\ j = started[Len(started)]
         /\ pc = "done"
         /\ result.kind \in {"io", "tool", "cancelled"}
         /\ result.os = environments[j].OS
         /\ result.arch = environments[j].Arch

\* the first of several selected environments has failed and Bundle has returned
C6_Witness ==
    /\ pc = "done" /\ mode = "bundle"
    /\ failed = {1}
    /\ started = <<1>>
    /\ Len(environments) >= 2
    /\ environmentFilter = <<>>

\* C7 as claimed: when Bundle fails, the bundle of every environment that
\* finished earlier in the run is still in its directory, unchanged, for every
\* list of environments.
C7_PriorIntactAnyList ==
    (pc = "done" /\ mode = "bundle" /\ result.kind # "ok") =>
       \A n \in 1..Len(finishedSnap) :
          outDirs[EnvironmentPath(environments[finishedSnap[n].pos])] = finishedSnap[n].dir

C7_DistinctNames ==
    \A i, j \in 1..Len(environments) :
       i # j => EName(environments[i]) # EName(environments[j])

\* C7 as amended: for a list of environments whose derived names are pairwise
\* distinct, the bundle of every environment that finished earlier in the run
\* stays in its directory, unchanged, whatever happens later in the run.
C7_PriorIntact ==
    C7_DistinctNames =>
       \A n \in 1..Len(finishedSnap) :
          outDirs[EnvironmentPath(environments[finishedSnap[n].pos])] = finishedSnap[n].dir

\* Bundle has failed in its third environment after finishing two others
C7_Witness ==
    /\ C7_DistinctNames
    /\ pc = "done" /\ mode = "bundle" /\ result.kind \in {"io", "tool", "cancelled"}
    /\ Len(finishedSnap) = 2
    /\ failed = {3}
    /\ \A n \in 1..2 : finishedSnap[n].dir.items # {}

\* C8 as claimed: after ClearCache has returned nil no file is cached for any
\* key, and the first provisioning of any key after that finds no file and
\* goes to download it.
C8_FreshAfterClearAnyKey ==
    /\ (pc = "done" /\ mode = "cc" /\ result.kind = "ok")
         => \A k \in CacheKeys : cache[k] = "none"
    /\ (pc = "download" /\ untouched[PayloadKey(payload, cur)])
         => cache[PayloadKey(payload, cur)] = "none"

\* C8 as amended: after ClearCache has returned nil no file is cached for any
\* key, and the first provisioning after that of a webview runtime key, or of
\* the framework key when no local framework path is configured, finds no file
\* and goes to download it.
C8_FreshAfterClear ==
    /\ (pc = "done" /\ mode = "cc" /\ result.kind = "ok")
         => \A k \in CacheKeys : cache[k] = "none"
    /\ (pc = "download" /\ untouched[PayloadKey(payload, cur)]
          /\ (payload = "electron" \/ pathAstilectron = <<>>))
         => cache[PayloadKey(payload, cur)] = "none"

\* a run after a successful ClearCache has downloaded the framework archive
\* anew and is about to look for the webview runtime archive
C8_Witness ==
    /\ runs = 2
    /\ pathAstilectron = <<>>
    /\ pc = "download" /\ payload = "electron"
    /\ untouched[ElectronKey(cur.OS, cur.Arch)]
    /\ ~untouched[AstKey] /\ absent0[AstKey] /\ downloads[AstKey] = 1
    /\ vendor.items # {}

\* C9: a finishDarwin that returns nil leaves <env>/N.app/Contents/MacOS/N,
\* the moved binary with mode 0777, nothing at <env>/binary, an Info.plist
\* under Contents whose display, executable and bundle names are N and whose
\* identifier is com.N, and, with a darwin icon configured, a copy of the icon
\* at Contents/Resources/N<extension of the icon>.
C9_DarwinBundle ==
    (pc = "bundleRet" /\ err = "nil" /\ cur.OS = "darwin") =>
       LET d == outDirs[EnvironmentPath(cur)]
           contents == << <<AppName, ".app">>, <<"Contents">> >>
       IN /\ \E f \in d.items :
               /\ f.path = contents \o << <<"MacOS">>, <<AppName>> >>
               /\ f.body.kind = "binary" /\ f.body.os = "darwin" /\ f.body.mode = "0777"
          /\ ~\E f \in d.items : f.path = <<<<"binary">>>>
          /\ \E f \in d.items :
               /\ f.path = contents \o << <<"Info", ".plist">> >>
               /\ f.body.kind = "plist"
               /\ f.body.displayName = <<AppName>>
               /\ f.body.executable = <<AppName>>
               /\ f.body.name = <<AppName>>
               /\ f.body.identifier = <<"com.", AppName>>
          /\ pathIconDarwin # <<>> =>
               \E f \in d.items :
                  /\ f.path = contents \o << <<"Resources">>, <<AppName, ".icns">> >>
                  /\ f.body = [kind |-> "icon", from |-> pathIconDarwin]

\* finishDarwin has returned nil with an icon configured
C9_Witness ==
    /\ pc = "bundleRet" /\ err = "nil" /\ cur.OS = "darwin"
    /\ pathIconDarwin = <<"icon", ".icns">>

\* C10: a finishLinux that returns nil leaves exactly one item in the
\* environment directory, the compiled binary named <AppName>; a
\* finishWindows that returns nil leaves exactly one, named <AppName>.exe;
\* and the check of the context that follows the move returns the
\* cancellation error when Stop() was called before it.
C10_FlatBundle ==
    /\ []((pc = "bundleRet" /\ err = "nil" /\ cur.OS \in {"linux", "windows"}) =>
            \E f \in outDirs[EnvironmentPath(cur)].items :
               /\ outDirs[EnvironmentPath(cur)].items = {f}
               /\ f.path = (IF cur.OS = "windows" THEN <<<<AppName, ".exe">>>>
                                                    ELSE <<<<AppName>>>>)
               /\ f.body.kind = "binary" /\ f.body.os = cur.OS /\ f.body.arch = cur.Arch)
    /\ [][(pc \in {"lChk", "wChk"} /\ cancelled /\ pc' # pc) => err' = "cancelled"]_vars

\* finishWindows and finishLinux have each returned nil in one run
C10_Witness ==
    /\ pc = "bundleRet" /\ err = "nil" /\ cur.OS = "windows"
    /\ \E n \in 1..Len(finishedSnap) : environments[finishedSnap[n].pos].OS = "linux"

\* C11 as claimed: absPath of a non-empty path returns its absolute form and
\* never calls the default function; of an empty path it returns exactly what
\* the default function returns, error included; of an empty path with no
\* default function it returns the empty path and no error.
C11_AbsPathAlways ==
    absCall.pc = "ret" =>
      /\ absCall.configPath # <<>> => (IsAbs(absCall.o) /\ absCall.calls = 0)
      /\ (absCall.configPath = <<>> /\ ~absCall.defaultPathFn.isNil) =>
            /\ absCall.o = absCall.defaultPathFn.o
            /\ absCall.err = absCall.defaultPathFn.err
      /\ (absCall.configPath = <<>> /\ absCall.defaultPathFn.isNil) =>
            (absCall.o = <<>> /\ absCall.err = "nil")

C11_NoDots(p) == \A i \in 1..Len(p) : p[i] \notin {".", ".."}

\* C11 as amended: absPath of a non-empty path never calls the default
\* function and, unless it returns an error, returns the absolute form of the
\* path: a path that starts at the root and has no "." or ".." segment, the
\* path itself when it was such a path already, and the working directory
\* followed by the path when it was relative with no "." or ".." segment.
\* It returns an error, and the empty path, only for a relative path when the
\* working directory cannot be told.  Of an empty path it returns exactly what
\* the default function returns, called once, error included; of an empty path
\* with no default function it returns the empty path and no error.
C11_AbsPath ==
    absCall.pc = "ret" =>
      /\ absCall.configPath # <<>> =>
            /\ absCall.calls = 0
            /\ absCall.err = "nil" =>
                  /\ IsAbs(absCall.o) /\ C11_NoDots(absCall.o)
                  /\ (IsAbs(absCall.configPath) /\ C11_NoDots(absCall.configPath))
                        => absCall.o = absCall.configPath
                  /\ (~IsAbs(absCall.configPath) /\ C11_NoDots(absCall.configPath))
                        => absCall.o = absCall.wd.o \o absCall.configPath
            /\ absCall.err # "nil" =>
                  /\ absCall.o = <<>>
                  /\ ~IsAbs(absCall.configPath) /\ absCall.wd.err # "nil"
      /\ (absCall.configPath = <<>> /\ ~absCall.defaultPathFn.isNil) =>
            /\ absCall.o = absCall.defaultPathFn.o
            /\ absCall.err = absCall.defaultPathFn.err
            /\ absCall.calls = 1
      /\ (absCall.configPath = <<>> /\ absCall.defaultPathFn.isNil) =>
            (absCall.o = <<>> /\ absCall.err = "nil" /\ absCall.calls = 0)

\* a relative path has been resolved below the working directory /w while a
\* default function was at hand
C11_Witness ==
    /\ absCall.pc = "ret"
    /\ absCall.configPath = <<"a", "b">>
    /\ ~absCall.defaultPathFn.isNil
    /\ absCall.o = <<"/", "w", "a", "b">>
    /\ absCall.err = "nil"

\* C12: within one environment the steps of bundle() come in a fixed order,
\* each after the one before it succeeded: the environment directory is removed
\* and recreated, the vendor directory is wiped and provisioned, the embedding
\* generator runs, for windows the icon resource step runs, the compiler runs,
\* the finisher runs.  The generator starts on an existing, empty environment
\* directory and a vendor directory just provisioned for this environment; the
\* compiler starts with the embedding of this OS made from that vendor
\* directory; the finisher starts with the binary compiled for this environment.
C12_Stage(p) ==
    CASE p \in {"rmEnv", "mkEnv"} -> 1
      [] p \in {"rmVendor", "mkVendor", "zip", "chkZip", "download", "chkDownload",
                "copy", "chkCopy"} -> 2
      [] p = "translate" -> 3
      [] p = "syso" -> 4
      [] p = "build" -> 5
      [] p \in {"dMkdir", "dMove", "dChkMove", "dChmod", "dMkRes", "dCopyIcon", "dChkIcon",
                "dPlist", "lMove", "lChk", "wMove", "wChk"} -> 6
      [] OTHER -> 0

C12_Provisioned ==
    /\ vendor.exists
    /\ { f.path : f \in vendor.items } = {ZipNameAstilectron, ZipNameElectron}
    /\ \A f \in vendor.items :
         f.body.kind = "zip" /\
         f.body.key = (IF f.path = ZipNameAstilectron THEN AstKey
                       ELSE ElectronKey(cur.OS, cur.Arch))

C12_StepOrder ==
    /\ [](mode = "bundle" =>
            /\ C12_Stage(pc) > 0 => (err = "nil" /\ started # <<>>
                                       /\ cur = environments[started[Len(started)]])
            /\ C12_Stage(pc) \in 3..5 =>
                  (C12_Provisioned /\ outDirs[EnvironmentPath(cur)] = EmptyDir)
            /\ C12_Stage(pc) \in 4..5 =>
                  bind[cur.OS] = [exists |-> TRUE, items |-> vendor.items]
            /\ pc = "syso" => cur.OS = "windows"
            /\ pc \in {"dMkdir", "lMove", "wMove"} =>
                  /\ pc = Finisher(cur.OS)
                  /\ outDirs[EnvironmentPath(cur)].items =
                        { [path |-> BinaryPath, body |-> BinaryBody(cur, syso)] })
    /\ [][(mode = "bundle" /\ pc' # pc) =>
            /\ C12_Stage(pc') = 1 => (pc = "loop" \/ C12_Stage(pc) = 1)
            /\ C12_Stage(pc') \in {2, 3, 4, 6} =>
                  C12_Stage(pc) \in {C12_Stage(pc') - 1, C12_Stage(pc')}
            /\ C12_Stage(pc') = 5 =>
                  (pc = "syso" \/ (pc = "translate" /\ cur.OS # "windows"))
            /\ (C12_Stage(pc) > 0 /\ C12_Stage(pc') > 0) => (cur' = cur /\ err' = "nil")
            /\ (C12_Stage(pc) > 0 /\ C12_Stage(pc') = 0) => pc' = "bundleRet"]_vars

\* the second environment of a run, a windows one with an icon, has passed all
\* six steps up to its finisher
C12_Witness ==
    /\ mode = "bundle" /\ pc = "wMove"
    /\ Len(started) = 2
    /\ pathIconWindows # <<>> /\ syso

\* C13 as claimed: once a file is cached for a key, no step of a Bundle or
\* BindData run rewrites, replaces or removes it, with or without a local
\* framework path; only ClearCache does.
C13_CacheImmutableAnyKey ==
    [][\A k \in CacheKeys :
          (cache[k] # "none" /\ pc # "clearCache") =>
             (cache'[k] = cache[k] /\ downloads'[k] = downloads[k])]_vars

\* C13 as amended: once a file is cached for a webview runtime key, or for
\* the framework key when no local framework path is configured, no step of a
\* Bundle or BindData run downloads it again, rewrites, replaces or removes it:
\* provisioning reads it and copies it into the vendor directory; only
\* ClearCache removes it.
C13_CacheImmutable ==
    [][\A k \in CacheKeys :
          (cache[k] # "none" /\ pc # "clearCache"
             /\ (k # AstKey \/ pathAstilectron = <<>>)) =>
             (cache'[k] = cache[k] /\ downloads'[k] = downloads[k])]_vars

\* both archives, cached before the run began, have been copied into the
\* vendor directory twice and are still cached
C13_Witness ==
    /\ pathAstilectron = <<>>
    /\ pc = "translate"
    /\ \A k \in {AstKey, ElectronKey(cur.OS, cur.Arch)} :
         ~absent0[k] /\ provisions[k] = 2 /\ downloads[k] = 0 /\ cache[k] = "canonical"
    /\ \A f \in vendor.items : f.body.data = "canonical"
    /\ Cardinality(vendor.items) = 2

\* the identity of an environment: its OS, tags and arch as written
C14_Identity(e) == <<e.OS, Concat(e.Tags), e.Arch>>

\* C14 as claimed: any two environments that differ in (OS, tags, arch) get
\* different derived names, as filter subject and as output directory.
C14_NamesUniqueAlways ==
    (nameCall.pc = "ret" /\ C14_Identity(nameCall.a) # C14_Identity(nameCall.b)) =>
       /\ nameCall.eNameA # nameCall.eNameB
       /\ nameCall.environmentPathA # nameCall.environmentPathB

C14_NoHyphen(e) ==
    /\ e.Arch \in {"amd64"}
    /\ \A i \in 1..Len(e.Tags) : e.Tags[i] # "-"

\* C14 as amended: the filter subject and the directory name of an
\* environment are the same string, OS-arch for empty tags and otherwise
\* OS-tags-arch with the spaces of the tags replaced by hyphens; any two
\* environments that differ in (OS, tags, arch) and have no hyphen in their
\* OS, tags or arch get different derived names.
C14_NamesUnique ==
    nameCall.pc = "ret" =>
       /\ nameCall.eNameA = nameCall.environmentPathA
       /\ nameCall.eNameB = nameCall.environmentPathB
       /\ (C14_Identity(nameCall.a) # C14_Identity(nameCall.b)
             /\ C14_NoHyphen(nameCall.a) /\ C14_NoHyphen(nameCall.b)) =>
               /\ nameCall.eNameA # nameCall.eNameB
               /\ nameCall.environmentPathA # nameCall.environmentPathB

\* the names of linux/amd64 with the two tags "b b" and with the one tag "bb"
\* have been derived
C14_Witness ==
    /\ nameCall.pc = "ret"
    /\ nameCall.a = Env("linux", "amd64", <<"b", " ", "b">>)
    /\ nameCall.b = Env("linux", "amd64", <<"b", "b">>)
    /\ nameCall.eNameA = "linux-b-b-amd64"
    /\ nameCall.environmentPathB = "linux-bb-amd64"

\* C15: the Info.plist of a darwin bundle names an icon file only if a darwin
\* icon is configured.  With an icon configured its icon entry is
\* <AppName><extension of the icon> and that file is in Resources; with none
\* configured the plist names no file that was never written, and there is no
\* Resources folder.
C15_IconEntry ==
    (pc = "bundleRet" /\ err = "nil" /\ cur.OS = "darwin") =>
       LET d == outDirs[EnvironmentPath(cur)]
           plist == BodyAt(d, InfoPlistPath)
       IN /\ pathIconDarwin # <<>> =>
               /\ plist.iconFile = <<AppName>> \o Ext(pathIconDarwin)
               /\ HasPath(d, ResourcesPath \o <<plist.iconFile>>)
          /\ pathIconDarwin = <<>> =>
               /\ ~HasPath(d, ResourcesPath)
               /\ plist.iconFile # <<>> => HasPath(d, ResourcesPath \o <<plist.iconFile>>)

\* C16: an environment whose OS is not one of the known ones makes New fail
\* before anything is done: with such an environment in the list the process
\* ends in New with a configuration error, no signal watcher is started, no
\* step changes anything on disk, and no pipeline step ever works on an
\* environment of an unknown OS, so the switch that picks the finisher never
\* takes its default branch.
C16_UnknownOS == \E i \in 1..Len(environments) : environments[i].OS \notin ValidOSes

C16_InvalidOSRejected ==
    /\ [](C16_UnknownOS =>
            /\ pc \in {"new", "done"}
            /\ pc = "done" => result.kind = "config"
            /\ watcher = "idle"
            /\ started = <<>>)
    /\ []((mode = "bundle" /\ pc \notin {"new", "signals", "switch", "reset", "loop", "done"}) =>
            (cur.OS \in ValidOSes /\ Finisher(cur.OS) # ""))
    /\ [][C16_UnknownOS => disk' = disk]_vars

\* New has failed for a list whose second environment has an unknown OS, on
\* a disk that holds earlier bundles, which are still there
C16_Witness ==
    /\ pc = "done" /\ result.kind = "config"
    /\ Len(environments) = 2
    /\ environments[1].OS = "linux" /\ environments[2].OS = "plan9"
    /\ outDirs[EnvironmentPath(environments[1])] = StaleDir
    /\ vendor = StaleDir

\* C17: the windows icon resource object is generated only for a windows
\* environment with a windows icon configured, in the step between the
\* embedding and the compiler; the compiler for such an environment starts
\* with the object in place; with no windows icon configured none is ever
\* generated; and when the icon step fails, bundle() returns its error with
\* nothing compiled.
C17_SysoStep ==
    /\ []((mode = "bundle" /\ pc = "build" /\ cur.OS = "windows" /\ pathIconWindows # <<>>)
            => syso)
    /\ [](pathIconWindows = <<>> => ~syso)
    /\ [][syso' # syso =>
            /\ pc = "syso" /\ pc' = "build"
            /\ cur.OS = "windows" /\ pathIconWindows # <<>>
            /\ bind[cur.OS] = [exists |-> TRUE, items |-> vendor.items]]_vars
    /\ [][(pc = "syso" /\ pc' # pc) =>
            /\ pc' \in {"build", "bundleRet"}
            /\ pc' = "bundleRet" =>
                  /\ err' = "tool" /\ pathIconWindows # <<>>
                  /\ syso' = syso
                  /\ outDirs'[EnvironmentPath(cur)] = EmptyDir]_vars

\* the icon step of a windows environment has failed after a darwin environment
\* was bundled, and Bundle has returned with the windows directory empty
C17_Witness ==
    /\ pc = "done" /\ mode = "bundle" /\ result.kind = "tool" /\ result.os = "windows"
    /\ pathIconWindows # <<>> /\ ~syso
    /\ Len(finishedSnap) = 1
    /\ environments[finishedSnap[1].pos].OS = "darwin"
    /\ outDirs[<<"windows", "-", "amd64">>] = EmptyDir
    /\ bind["windows"].exists

\* C18: the signal watcher calls Stop() on the first signal, once, and exits;
\* nothing cancels after that and nothing else cancels.  The context is
\* cancelled exactly when the watcher has exited, and once cancelled it stays
\* cancelled through every later step of the process.
C18_SignalOnce ==
    /\ [](cancelled <=> watcher = "exited")
    /\ [][/\ cancelled => cancelled'
          /\ watcher = "exited" => watcher' = "exited"
          /\ cancelled' # cancelled => (watcher = "watching" /\ watcher' = "exited")
          /\ watcher' # watcher =>
                \/ (watcher = "idle" /\ watcher' = "watching" /\ pc = "signals")
                \/ (watcher = "watching" /\ watcher' = "exited" /\ cancelled')]_vars

\* Stop() came in the middle of the first environment and Bundle, having
\* seen it at a later check, has returned the cancellation error
C18_Witness ==
    /\ pc = "done" /\ mode = "bundle"
    /\ stopGap /\ cancelled /\ watcher = "exited"
    /\ result.kind = "cancelled"

\* C19: the compiler gets a process environment of exactly four variables,
\* GOARCH and GOOS of the environment built and GOPATH and PATH of the host,
\* and nothing else of the host: for the same environment, two hosts that
\* agree on GOPATH and PATH hand the compiler the same process environment.
C19_Names(env) == { env[i][1] : i \in 1..Len(env) }

C19_MinimalEnv ==
    cmdCall.pc = "ret" =>
       /\ Len(cmdCall.envA) = 4
       /\ C19_Names(cmdCall.envA) = {"GOARCH", "GOOS", "GOPATH", "PATH"}
       /\ \A i \in 1..Len(cmdCall.envA) :
            cmdCall.envA[i][2] =
              CASE cmdCall.envA[i][1] = "GOARCH" -> cmdCall.e.Arch
                [] cmdCall.envA[i][1] = "GOOS" -> cmdCall.e.OS
                [] OTHER -> cmdCall.hostA[cmdCall.envA[i][1]]
       /\ (cmdCall.hostA["GOPATH"] = cmdCall.hostB["GOPATH"]
             /\ cmdCall.hostA["PATH"] = cmdCall.hostB["PATH"])
            => cmdCall.envA = cmdCall.envB

\* the command for windows/amd64 was built on two hosts with the same GOPATH
\* and PATH but different HOME and GOFLAGS
C19_Witness ==
    /\ cmdCall.pc = "ret"
    /\ cmdCall.e.OS = "windows"
    /\ cmdCall.hostA["GOPATH"] = "u" /\ cmdCall.hostB["GOPATH"] = "u"
    /\ cmdCall.hostA["PATH"] = "v" /\ cmdCall.hostB["PATH"] = "v"
    /\ cmdCall.hostA["HOME"] # cmdCall.hostB["HOME"]
    /\ cmdCall.hostA["GOFLAGS"] # cmdCall.hostB["GOFLAGS"]
    /\ cmdCall.envA = cmdCall.envB

\* the finished bundle of environment e is in its directory: for linux the
\* binary <AppName>, for windows <AppName>.exe, for darwin <AppName>.app with
\* the binary under Contents/MacOS and the Info.plist, compiled for the OS, the
\* arch and the tags of e, and no file <env>/binary
C20_Finished(e) ==
    LET d == outDirs[EnvironmentPath(e)]
        binary == CASE e.OS = "darwin" -> MacOSBinaryPath
                    [] e.OS = "windows" -> WindowsBinaryPath
                    [] OTHER -> LinuxBinaryPath
    IN /\ d.exists
       /\ HasPath(d, binary)
       /\ BodyAt(d, binary).kind = "binary"
       /\ BodyAt(d, binary).os = e.OS /\ BodyAt(d, binary).arch = e.Arch
       /\ BodyAt(d, binary).tags = e.Tags
       /\ ~HasPath(d, BinaryPath)
       /\ e.OS = "darwin" =>
            /\ HasPath(d, InfoPlistPath)
            /\ BodyAt(d, binary).mode = "0777"
            /\ pathIconDarwin # <<>> => HasPath(d, IconPath)

\* C20 as claimed: whenever Bundle has returned nil, every selected
\* environment (every one without a filter, the matching ones with a filter)
\* has its finished bundle in its own directory, whatever the list.
C20_AllFinishedAnyList ==
    (pc = "done" /\ mode = "bundle" /\ result.kind = "ok") =>
       \A i \in 1..Len(environments) :
          Selected(environments[i]) => C20_Finished(environments[i])

\* C20 as amended: for a list of environments whose derived names are
\* pairwise distinct, whenever Bundle has returned nil every selected
\* environment has its finished bundle in its own directory.
C20_AllFinished ==
    (pc = "done" /\ mode = "bundle" /\ result.kind = "ok" /\ C7_DistinctNames) =>
       \A i \in 1..Len(environments) :
          Selected(environments[i]) => C20_Finished(environments[i])

\* Bundle has returned nil for a tagged linux environment and a darwin one,
\* both selected
C20_Witness ==
    /\ pc = "done" /\ mode = "bundle" /\ result.kind = "ok"
    /\ environmentFilter = <<>>
    /\ environments = <<Env("linux", "amd64", <<"a", " ", "b">>), Env("darwin", "amd64", <<>>)>>
    /\ started = <<1, 2>>
    /\ C20_Finished(environments[1]) /\ C20_Finished(environments[2])

\* C21: whenever the compiler is about to be invoked for an environment whose
\* OS is not windows, b.pathInput holds no windows.syso written by
\* addWindowsSyso earlier in the same run (no run starts with one).
C21_NoSysoLeak ==
    (mode = "bundle" /\ pc = "build" /\ cur.OS # "windows") => ~syso

====
